---- MODULE Spec2Model ----
(***************************************************************************)
(* Static-Sort: fixed-size sorting networks (include/static_sort.h).       *)
(*                                                                         *)
(* StaticSort<N> runs a fixed list of compare-exchanges: the Bose-Nelson   *)
(* recursion PS/PB for the primary template, a hand-written table for each *)
(* N in 2..8.  StaticTimSort<N> scans the input first and skips the        *)
(* network when the scan finds the input ordered; its specialization for   *)
(* N in 2..8 forwards to StaticSort<N>.                                    *)
(*                                                                         *)
(* One call is modelled step by step: the call with its length check, one  *)
(* step per iteration of the scan, one per exchange of the reversal, one   *)
(* per compare-exchange of the network.  Positions are 0-based as in the   *)
(* source; the sequence a is a TLA+ sequence, so a[p + 1] is a[p] there.   *)
(***************************************************************************)
EXTENDS Integers, Sequences, FiniteSets, TLC

\* ------------------------------------------------------------- bounds ----
\* Largest NumElements a call is instantiated with (9 is the first size
\* that takes the primary templates of both classes beyond N = 1).
MaxN == 9
\* Elements of the ordered (monotone) inputs are drawn from 0..MaxElem.
MaxElem == 2
\* Largest N the Bose-Nelson recursion is run for on its own.
MaxGenN == 12
\* The scan of large inputs is run for NumElements from 22 (the last size
\* scanned to the end) to 22 + MaxOver.
\* The most template instantiations the construction may have begun and not
\* completed at one time.
MaxPending == 16

MaxOver == 1

\* -------------------------------------------------- program constants ----
\* StaticTimSort::Intro::sorted: "if constexpr (NumElements < 8) return false"
ScanThreshold == 8
\* StaticTimSort::Intro::sorted: "if constexpr (NumElements <= 22)" (no early exit)
FullScanMax == 22
\* First and last size with a hand-written network (StaticSort<2>..StaticSort<8>),
\* the range of "requires(N >= 2 && N <= 8)" of the StaticTimSort specialization.
MinSpecialized == 2
MaxSpecialized == 8

\* -------------------------------------------------------- comparators ----
\* detail::DefaultLess
DefaultLess(x, y) == x < y

\* The key of an element under the caller's "by key" comparator: 1 and 2
\* (3 and 4, ...) are equivalent under it and still different elements.
Key(e) == (e + 1) \div 2

\* The comparators a call is made with: the default one, the lambda
\* (a > b) of the tests, and a strict weak order with equivalent elements.
Comparators == {"less", "greater", "bykey"}

\* c(x, y) for the comparator named c
Compare(c, x, y) ==
    CASE c = "less" -> DefaultLess(x, y)
      [] c = "greater" -> x > y
      [] c = "bykey" -> Key(x) < Key(y)

\* ---------------------------------------------------- compare-exchange ---
\* An exchange that assigns one way only: position p receives the element of q,
\* whose own element is lost.
Exchange_overwrite(s, p, q) ==
    [s EXCEPT ![p + 1] = s[q + 1]]

\* std::ranges::swap(a, b) on the zero-based positions p and q of s
Exchange(s, p, q) ==
    [s EXCEPT ![p + 1] = s[q + 1], ![q + 1] = s[p + 1]]

\* swap_if exchanging unless a precedes b: equivalent elements are exchanged too.
swap_if_nonstrict(s, p, q, c) ==
    IF ~Compare(c, s[p + 1], s[q + 1]) THEN Exchange(s, p, q) ELSE s

\* swap_if testing c(a, b) where the source tests c(b, a).
swap_if_wrong_test(s, p, q, c) ==
    IF Compare(c, s[p + 1], s[q + 1]) THEN Exchange(s, p, q) ELSE s

\* swap_if(a, b, c): "if (c(b, a)) std::ranges::swap(a, b)", on positions p, q of s
swap_if(s, p, q, c) ==
    IF Compare(c, s[q + 1], s[p + 1]) THEN Exchange(s, p, q) ELSE s

\* Swap<A, C, I0, I1>: the edge whose constructor runs swap_if(a[I0], a[I1], c)
Swap(I0, I1) == << <<I0, I1>> >>

\* ------------------------------------------ Bose-Nelson recursion --------
RECURSIVE PB(_, _, _, _)

\* PB with the second and third merge of the general case in the other order.
PB_merges_reordered(I, J, X, Y) ==
    CASE X = 1 /\ Y = 1 -> Swap(I - 1, J - 1)
      [] X = 1 /\ Y = 2 -> Swap(I - 1, J) \o Swap(I - 1, J - 1)
      [] X = 2 /\ Y = 1 -> Swap(I - 1, J - 1) \o Swap(I, J - 1)
      [] OTHER ->
           LET L == X \div 2
               M == (IF X % 2 = 1 THEN Y ELSE Y + 1) \div 2
           IN  PB(I, J, L, M) \o PB(I + L, J, X - L, M) \o PB(I + L, J + M, X - L, Y - M)

\* PB with the two edges of the base case X = 1, Y = 2 in the other order.
PB_base12_reordered(I, J, X, Y) ==
    CASE X = 1 /\ Y = 1 -> Swap(I - 1, J - 1)
      [] X = 1 /\ Y = 2 -> Swap(I - 1, J - 1) \o Swap(I - 1, J)
      [] X = 2 /\ Y = 1 -> Swap(I - 1, J - 1) \o Swap(I, J - 1)
      [] OTHER ->
           LET L == X \div 2
               M == (IF X % 2 = 1 THEN Y ELSE Y + 1) \div 2
           IN  PB(I, J, L, M) \o PB(I + L, J + M, X - L, Y - M) \o PB(I + L, J, X - L, M)

\* PB<A, C, I, J, X, Y>: merge of the blocks of length X at I and Y at J
\* (1-based), as the list of edges its constructor executes, in order.
PB(I, J, X, Y) ==
    CASE X = 1 /\ Y = 1 -> Swap(I - 1, J - 1)
      [] X = 1 /\ Y = 2 -> Swap(I - 1, J) \o Swap(I - 1, J - 1)
      [] X = 2 /\ Y = 1 -> Swap(I - 1, J - 1) \o Swap(I, J - 1)
      [] OTHER ->
           LET L == X \div 2
               M == (IF X % 2 = 1 THEN Y ELSE Y + 1) \div 2
               IAddL == I + L
               XSubL == X - L
           IN  PB(I, J, L, M) \o PB(IAddL, J + M, XSubL, Y - M) \o PB(IAddL, J, XSubL, M)

RECURSIVE PS(_, _, _)
\* PS<A, C, I, M, Stop>: sort of the block of length M at I (1-based); the
\* specialization for Stop = 1 has an empty constructor.
PS(I, M, Stop) ==
    IF Stop THEN << >>
    ELSE LET L == M \div 2
             IAddL == I + L
             MSubL == M - L
         IN  PS(I, L, L <= 1) \o PS(IAddL, MSubL, MSubL <= 1) \o PB(I, IAddL, L, MSubL)

\* The edge list of the primary template StaticSort<n>:
\* PS<Container, LT, 1, NumElements, (NumElements <= 1)>
BoseNelson(n) == PS(1, n, n <= 1)

\* The primary template's networks, built once per n.
GenericNet ==
    [n \in 0..(FullScanMax + MaxOver + (IF MaxN > MaxGenN THEN MaxN ELSE MaxGenN)) |->
        BoseNelson(n)]

\* ------------------------------------ specialized networks, N = 2..8 -----
\* One list per overload of StaticSort<N>::operator(), as written there.
StaticSort2_container ==
    << <<0,1>> >>
StaticSort2_containerCmp ==
    << <<0,1>> >>
StaticSort2_iter ==
    << <<0,1>> >>
StaticSort2_iterCmp ==
    << <<0,1>> >>
StaticSort3_container ==
    << <<1,2>>, <<0,2>>, <<0,1>> >>
StaticSort3_containerCmp ==
    << <<1,2>>, <<0,2>>, <<0,1>> >>
StaticSort3_iter ==
    << <<1,2>>, <<0,2>>, <<0,1>> >>
StaticSort3_iterCmp ==
    << <<1,2>>, <<0,2>>, <<0,1>> >>
\* StaticSort<4>, container overload, its last line written as swap_if(a[2], a[1], ...).
StaticSort4_container_backwards ==
    << <<0,1>>, <<2,3>>, <<0,2>>, <<1,3>>, <<2,1>> >>
StaticSort4_container ==
    << <<0,1>>, <<2,3>>, <<0,2>>, <<1,3>>, <<1,2>> >>
StaticSort4_containerCmp ==
    << <<0,1>>, <<2,3>>, <<0,2>>, <<1,3>>, <<1,2>> >>
StaticSort4_iter ==
    << <<0,1>>, <<2,3>>, <<0,2>>, <<1,3>>, <<1,2>> >>
StaticSort4_iterCmp ==
    << <<0,1>>, <<2,3>>, <<0,2>>, <<1,3>>, <<1,2>> >>
StaticSort5_container ==
    << <<0,1>>, <<3,4>>, <<2,4>>, <<2,3>>, <<0,3>>, <<0,2>>, <<1,4>>, 
       <<1,3>>, <<1,2>> >>
StaticSort5_containerCmp ==
    << <<0,1>>, <<3,4>>, <<2,4>>, <<2,3>>, <<0,3>>, <<0,2>>, <<1,4>>, 
       <<1,3>>, <<1,2>> >>
\* StaticSort<5>, iterator overload, with its last line written twice.
StaticSort5_iter_repeated ==
    << <<0,1>>, <<3,4>>, <<2,4>>, <<2,3>>, <<0,3>>, <<0,2>>, <<1,4>>, <<1,3>>, <<1,2>>,
       <<1,2>> >>
StaticSort5_iter ==
    << <<0,1>>, <<3,4>>, <<2,4>>, <<2,3>>, <<0,3>>, <<0,2>>, <<1,4>>, 
       <<1,3>>, <<1,2>> >>
StaticSort5_iterCmp ==
    << <<0,1>>, <<3,4>>, <<2,4>>, <<2,3>>, <<0,3>>, <<0,2>>, <<1,4>>, 
       <<1,3>>, <<1,2>> >>
\* StaticSort<6>, container overload, without its last compare-exchange.
StaticSort6_container_short ==
    << <<1,2>>, <<4,5>>, <<0,2>>, <<3,5>>, <<0,1>>, <<3,4>>, <<1,4>>, <<0,3>>, <<2,5>>,
       <<1,3>>, <<2,4>> >>
StaticSort6_container ==
    << <<1,2>>, <<4,5>>, <<0,2>>, <<3,5>>, <<0,1>>, <<3,4>>, <<1,4>>, 
       <<0,3>>, <<2,5>>, <<1,3>>, <<2,4>>, <<2,3>> >>
StaticSort6_containerCmp ==
    << <<1,2>>, <<4,5>>, <<0,2>>, <<3,5>>, <<0,1>>, <<3,4>>, <<1,4>>, 
       <<0,3>>, <<2,5>>, <<1,3>>, <<2,4>>, <<2,3>> >>
StaticSort6_iter ==
    << <<1,2>>, <<4,5>>, <<0,2>>, <<3,5>>, <<0,1>>, <<3,4>>, <<1,4>>, 
       <<0,3>>, <<2,5>>, <<1,3>>, <<2,4>>, <<2,3>> >>
StaticSort6_iterCmp ==
    << <<1,2>>, <<4,5>>, <<0,2>>, <<3,5>>, <<0,1>>, <<3,4>>, <<1,4>>, 
       <<0,3>>, <<2,5>>, <<1,3>>, <<2,4>>, <<2,3>> >>
StaticSort7_container ==
    << <<1,2>>, <<3,4>>, <<5,6>>, <<0,2>>, <<3,5>>, <<4,6>>, <<0,1>>, 
       <<4,5>>, <<2,6>>, <<0,4>>, <<1,5>>, <<0,3>>, <<2,5>>, <<1,3>>, 
       <<2,4>>, <<2,3>> >>
StaticSort7_containerCmp ==
    << <<1,2>>, <<3,4>>, <<5,6>>, <<0,2>>, <<3,5>>, <<4,6>>, <<0,1>>, 
       <<4,5>>, <<2,6>>, <<0,4>>, <<1,5>>, <<0,3>>, <<2,5>>, <<1,3>>, 
       <<2,4>>, <<2,3>> >>
StaticSort7_iter ==
    << <<1,2>>, <<3,4>>, <<5,6>>, <<0,2>>, <<3,5>>, <<4,6>>, <<0,1>>, 
       <<4,5>>, <<2,6>>, <<0,4>>, <<1,5>>, <<0,3>>, <<2,5>>, <<1,3>>, 
       <<2,4>>, <<2,3>> >>
\* StaticSort<7>, iterator + comparator overload, its first two lines exchanged.
StaticSort7_iterCmp_transposed ==
    << <<3,4>>, <<1,2>>, <<5,6>>, <<0,2>>, <<3,5>>, <<4,6>>, <<0,1>>, <<4,5>>, <<2,6>>,
       <<0,4>>, <<1,5>>, <<0,3>>, <<2,5>>, <<1,3>>, <<2,4>>, <<2,3>> >>
StaticSort7_iterCmp ==
    << <<1,2>>, <<3,4>>, <<5,6>>, <<0,2>>, <<3,5>>, <<4,6>>, <<0,1>>, 
       <<4,5>>, <<2,6>>, <<0,4>>, <<1,5>>, <<0,3>>, <<2,5>>, <<1,3>>, 
       <<2,4>>, <<2,3>> >>
StaticSort8_container ==
    << <<0,1>>, <<2,3>>, <<4,5>>, <<6,7>>, <<0,2>>, <<1,3>>, <<4,6>>, 
       <<5,7>>, <<1,2>>, <<5,6>>, <<0,4>>, <<3,7>>, <<1,5>>, <<2,6>>, 
       <<1,4>>, <<3,6>>, <<2,4>>, <<3,5>>, <<3,4>> >>
StaticSort8_containerCmp ==
    << <<0,1>>, <<2,3>>, <<4,5>>, <<6,7>>, <<0,2>>, <<1,3>>, <<4,6>>, 
       <<5,7>>, <<1,2>>, <<5,6>>, <<0,4>>, <<3,7>>, <<1,5>>, <<2,6>>, 
       <<1,4>>, <<3,6>>, <<2,4>>, <<3,5>>, <<3,4>> >>
StaticSort8_iter ==
    << <<0,1>>, <<2,3>>, <<4,5>>, <<6,7>>, <<0,2>>, <<1,3>>, <<4,6>>, 
       <<5,7>>, <<1,2>>, <<5,6>>, <<0,4>>, <<3,7>>, <<1,5>>, <<2,6>>, 
       <<1,4>>, <<3,6>>, <<2,4>>, <<3,5>>, <<3,4>> >>
StaticSort8_iterCmp ==
    << <<0,1>>, <<2,3>>, <<4,5>>, <<6,7>>, <<0,2>>, <<1,3>>, <<4,6>>, 
       <<5,7>>, <<1,2>>, <<5,6>>, <<0,4>>, <<3,7>>, <<1,5>>, <<2,6>>, 
       <<1,4>>, <<3,6>>, <<2,4>>, <<3,5>>, <<3,4>> >>
\* The list StaticSort<n>::operator() executes in its overload o, n in 2..8.
SpecializedNet(n, o) ==
    CASE n = 2 /\ o = "container" -> StaticSort2_container
      [] n = 2 /\ o = "containerCmp" -> StaticSort2_containerCmp
      [] n = 2 /\ o = "iter" -> StaticSort2_iter
      [] n = 2 /\ o = "iterCmp" -> StaticSort2_iterCmp
      [] n = 3 /\ o = "container" -> StaticSort3_container
      [] n = 3 /\ o = "containerCmp" -> StaticSort3_containerCmp
      [] n = 3 /\ o = "iter" -> StaticSort3_iter
      [] n = 3 /\ o = "iterCmp" -> StaticSort3_iterCmp
      [] n = 4 /\ o = "container" -> StaticSort4_container
      [] n = 4 /\ o = "containerCmp" -> StaticSort4_containerCmp
      [] n = 4 /\ o = "iter" -> StaticSort4_iter
      [] n = 4 /\ o = "iterCmp" -> StaticSort4_iterCmp
      [] n = 5 /\ o = "container" -> StaticSort5_container
      [] n = 5 /\ o = "containerCmp" -> StaticSort5_containerCmp
      [] n = 5 /\ o = "iter" -> StaticSort5_iter
      [] n = 5 /\ o = "iterCmp" -> StaticSort5_iterCmp
      [] n = 6 /\ o = "container" -> StaticSort6_container
      [] n = 6 /\ o = "containerCmp" -> StaticSort6_containerCmp
      [] n = 6 /\ o = "iter" -> StaticSort6_iter
      [] n = 6 /\ o = "iterCmp" -> StaticSort6_iterCmp
      [] n = 7 /\ o = "container" -> StaticSort7_container
      [] n = 7 /\ o = "containerCmp" -> StaticSort7_containerCmp
      [] n = 7 /\ o = "iter" -> StaticSort7_iter
      [] n = 7 /\ o = "iterCmp" -> StaticSort7_iterCmp
      [] n = 8 /\ o = "container" -> StaticSort8_container
      [] n = 8 /\ o = "containerCmp" -> StaticSort8_containerCmp
      [] n = 8 /\ o = "iter" -> StaticSort8_iter
      [] n = 8 /\ o = "iterCmp" -> StaticSort8_iterCmp

\* ------------------------------------------------- overload selection ----
\* The shapes a call is written in.
Forms == {"container", "containerCmp", "iter", "iterCmp", "range", "rangeCmp"}

\* The four operator() bodies of a StaticSort<N> that execute a network.
Overloads == {"container", "containerCmp", "iter", "iterCmp"}

\* A call shape that passes a comparator.
HasCompare(f) == f \in {"containerCmp", "iterCmp", "rangeCmp"}

\* A call shape that reaches the "last - first" length check.
IsIterator(f) == f \in {"iter", "iterCmp", "range", "rangeCmp"}

\* StaticSort<n> is one of the explicit specializations.
IsSpecialized(n) == n >= MinSpecialized /\ n <= MaxSpecialized

\* The StaticSort<n> overload whose body runs for a call of shape f.  The
\* range overloads forward to the iterator ones; the primary template has no
\* (Container&, Compare) overload, so that shape takes its range overload.
StaticSortOverload(n, f) ==
    CASE f = "container" -> "container"
      [] f = "containerCmp" -> IF IsSpecialized(n) THEN "containerCmp" ELSE "iterCmp"
      [] f \in {"iter", "range"} -> "iter"
      [] f \in {"iterCmp", "rangeCmp"} -> "iterCmp"

\* An overload that drops the caller's comparator and sorts with LT().
UsedComparator_default(f, c) == "less"

\* The comparator the overload hands to swap_if: LT() unless one is passed.
UsedComparator(f, c) == IF HasCompare(f) THEN c ELSE "less"

\* The network StaticSort<n> executes in overload o: the specialization's
\* list for n in 2..8, the Bose-Nelson recursion otherwise.
Network(n, o) == IF IsSpecialized(n) THEN SpecializedNet(n, o) ELSE GenericNet[n]

\* A length check that only rejects a range that is too short.
LengthMismatch_short(f, s, n) == IsIterator(f) /\ Len(s) < n

\* "if (size != NumElements) return;" of the iterator overloads
LengthMismatch(f, s, n) == IsIterator(f) /\ Len(s) # n

\* StaticTimSort<n> is the specialization that forwards to StaticSort<n>.
Delegates(n) == n >= MinSpecialized /\ n <= MaxSpecialized

\* Intro::reverse exchanges a[i] with a[NumElements - 1 - i].
Mirror(n, i) == n - 1 - i

\* The decision returning true where the source's last line returns false.
Decision_always_true(hd, hi) ==
    IF ~hd THEN "done" ELSE IF ~hi THEN "reverse" ELSE "done"

\* The decision with the two flags taken for each other.
Decision_flags_swapped(hd, hi) ==
    IF ~hi THEN "done" ELSE IF ~hd THEN "reverse" ELSE "net"

\* The decision of Intro::sorted after the scan.
Decision(hd, hi) ==
    IF ~hd THEN "done" ELSE IF ~hi THEN "reverse" ELSE "net"

RECURSIVE RunNetwork(_, _, _)
\* The sequence after the edges of net have been executed in order on s.
RunNetwork(net, s, c) ==
    IF net = << >> THEN s
    ELSE RunNetwork(Tail(net), swap_if(s, Head(net)[1], Head(net)[2], c), c)

\* What StaticSort<n>()(...) leaves of s in overload o with comparator c.
StaticSort(n, o, s, c) == RunNetwork(Network(n, o), s, c)

\* --------------------------------------------------------------- inputs --
\* The arrays of the tests (test_correctness.cpp, test_standalone.cpp).
TestInputs ==
    { <<5, 2, 8, 1, 9, 3>>, <<1, 2, 3, 4, 5>>,
      <<1, 2, 3, 4, 5, 6, 7, 8>>, <<8, 7, 6, 5, 4, 3, 2, 1>>,
      <<2, 1>>, <<3, 1, 2>>, <<4, 2, 3, 1>>, <<5, 3, 1, 4, 2>>,
      <<6, 4, 2, 5, 3, 1>>, <<7, 5, 3, 1, 6, 4, 2>>,
      <<8, 6, 4, 2, 7, 5, 3, 1>>, <<6, 2, 8, 1, 9, 3>>, <<1, 2, 3, 4>> }

\* generate_sorted_array<n>, generate_reversed_array<n>, generate_pipe_organ_array<n>
generate_sorted_array(n) == [p \in 1..n |-> p - 1]
generate_reversed_array(n) == [p \in 1..n |-> n - p]
generate_pipe_organ_array(n) ==
    [p \in 1..n |-> IF p - 1 < n \div 2 THEN p - 1 ELSE n - (p - 1)]

\* Every 0/1 sequence of length n (the inputs of the zero-one principle).
ZeroOne(n) == [1..n -> {0, 1}]

RECURSIVE NonDecreasing(_)
\* The non-decreasing sequences of length n over 0..MaxElem.
NonDecreasing(n) ==
    IF n = 0 THEN { << >> }
    ELSE UNION { { Append(s, e) : e \in {x \in 0..MaxElem : n = 1 \/ x >= s[n - 1]} } :
                 s \in NonDecreasing(n - 1) }

\* The sequence s back to front.
Reversed(s) == [p \in 1..Len(s) |-> s[Len(s) + 1 - p]]

\* The ordered inputs: non-decreasing and non-increasing, ties included.
Monotone(n) == NonDecreasing(n) \cup { Reversed(s) : s \in NonDecreasing(n) }

\* The inputs of length n a call is made with.
InputsOfLength(n) ==
    ZeroOne(n) \cup Monotone(n) \cup { s \in TestInputs : Len(s) = n }
      \cup { generate_sorted_array(n), generate_reversed_array(n),
             generate_pipe_organ_array(n) }

\* The inputs, built once per length.
Inputs == [n \in 0..MaxN |-> InputsOfLength(n)]

\* The lengths of the storage a call of shape f for NumElements = n is made
\* on: a container has n elements, an iterator pair may span one more or less.
StorageLengths(n, f) ==
    IF IsIterator(f) THEN {n - 1, n, n + 1} \cap 0..MaxN ELSE {n}

\* ---------------------------------------------------------------- state --
VARIABLES
    pc,        \* "idle", "scan", "reverse", "net", "gen", "inst", "done"
    entry,     \* "sort" (StaticSort) or "adaptive_sort" (StaticTimSort)
    lt,        \* the comparator the caller passed ("less" when none)
    overload,  \* the StaticSort overload that runs the network
    cmp,       \* the comparator handed to swap_if and to the scan
    N,         \* NumElements
    a,         \* the caller's storage
    orig,      \* the storage as it was when the call was made
    i,         \* loop variable of the scan
    prev,      \* local of the scan: the element before a[i]
    hasDec,    \* local of the scan
    hasInc,    \* local of the scan
    k,         \* number of edges of the network executed so far
    trace,     \* the edges executed so far, in order
    nswap,     \* number of compare-exchanges that exchanged
    nrev,      \* number of exchanges of the reversal done so far
    accessed,  \* the positions read or written so far
    pending    \* the template instantiations begun and not yet completed, innermost first

vars == <<pc, entry, lt, overload, cmp, N, a, orig, i, prev, hasDec, hasInc,
          k, trace, nswap, nrev, accessed, pending>>

Entries == {"sort", "adaptive_sort"}

\* No call has been made yet.
Init ==
    /\ pc = "idle"
    /\ entry = "sort"
    /\ lt = "less"
    /\ overload = "container"
    /\ cmp = "less"
    /\ N = 0
    /\ a = << >>
    /\ orig = << >>
    /\ i = 0
    /\ prev = 0
    /\ hasDec = FALSE
    /\ hasInc = FALSE
    /\ k = 0
    /\ trace = << >>
    /\ nswap = 0
    /\ nrev = 0
    /\ accessed = {}
    /\ pending = << >>

\* StaticSort<n>()(...) in shape f, with comparator c, on the storage s:
\* the length check of the iterator overloads, then the network.
CallSort(n, f, c, s) ==
    /\ entry' = "sort"
    /\ lt' = c
    /\ overload' = StaticSortOverload(n, f)
    /\ cmp' = UsedComparator(f, c)
    /\ N' = n
    /\ a' = s
    /\ orig' = s
    /\ pc' = IF LengthMismatch(f, s, n) THEN "done" ELSE "net"
    /\ UNCHANGED <<i, prev, hasDec, hasInc, k, trace, nswap, nrev, accessed>>
    /\ UNCHANGED pending

\* StaticTimSort<n>()(...) in shape f, with comparator c, on the storage s.
\* For n in 2..8 the specialization forwards to StaticSort<n>.  The primary
\* template checks the length (iterator overloads) or returns for n = 0
\* (container overloads), reads arr[0] for Intro::sorted, which returns
\* false at once for n < 8 and scans otherwise.  The iterator overloads have
\* no guard for n = 0: adapted[0] is read from an empty range, and prev is
\* whatever that read yields.
CallAdaptive(n, f, c, s) ==
    /\ entry' = "adaptive_sort"
    /\ lt' = c
    /\ overload' = StaticSortOverload(n, f)
    /\ cmp' = UsedComparator(f, c)
    /\ N' = n
    /\ a' = s
    /\ orig' = s
    /\ UNCHANGED <<hasDec, hasInc, k, trace, nswap, nrev>>
    /\ IF LengthMismatch(f, s, n)
         THEN pc' = "done" /\ UNCHANGED <<i, prev, accessed>>
       ELSE IF Delegates(n)
         THEN pc' = "net" /\ UNCHANGED <<i, prev, accessed>>
       ELSE IF n = 0 /\ ~IsIterator(f)
         THEN pc' = "done" /\ UNCHANGED <<i, prev, accessed>>
       ELSE /\ accessed' = {0}
            /\ IF n = 0 THEN prev' \in 0..MaxElem ELSE prev' = s[1]
            /\ i' = 1
            /\ pc' = IF n < ScanThreshold THEN "net" ELSE "scan"
    /\ UNCHANGED pending

\* An early exit taken at every size, not only for NumElements > 22.
EarlyExit_any_size(n, inc, dec) == inc /\ dec

\* "if (hasInc && hasDec) return false;" in the loop compiled for NumElements > 22
EarlyExit(n, inc, dec) == n > FullScanMax /\ inc /\ dec

\* One iteration of the scan loop of Intro::sorted.  For NumElements > 22
\* the loop returns false as soon as both flags are set.
ScanStep ==
    /\ pc = "scan"
    /\ i < N
    /\ LET curr == a[i + 1]
           dec == hasDec \/ Compare(cmp, curr, prev)
           inc == hasInc \/ Compare(cmp, prev, curr)
       IN  /\ hasDec' = dec
           /\ hasInc' = inc
           /\ prev' = curr
           /\ pc' = IF EarlyExit(N, inc, dec) THEN "net" ELSE "scan"
    /\ i' = i + 1
    /\ accessed' = accessed \cup {i}
    /\ UNCHANGED <<entry, lt, overload, cmp, N, a, orig, k, trace, nswap, nrev>>
    /\ UNCHANGED pending

\* The end of Intro::sorted: return true (ascending), reverse and return
\* true (descending), or return false, on which the caller runs the network.
Decide ==
    /\ pc = "scan"
    /\ ~(i < N)
    /\ pc' = Decision(hasDec, hasInc)
    /\ accessed' = IF Decision(hasDec, hasInc) = "reverse"
                     THEN accessed \cup {0} ELSE accessed
    /\ UNCHANGED <<entry, lt, overload, cmp, N, a, orig, i, prev, hasDec, hasInc,
                   k, trace, nswap, nrev>>
    /\ UNCHANGED pending

\* One exchange of Intro::reverse: std::ranges::swap(a[i], a[N - 1 - i]).
ReverseStep ==
    /\ pc = "reverse"
    /\ N > 1
    /\ nrev < N \div 2
    /\ a' = Exchange(a, nrev, Mirror(N, nrev))
    /\ nrev' = nrev + 1
    /\ accessed' = accessed \cup {nrev, Mirror(N, nrev)}
    /\ UNCHANGED <<pc, entry, lt, overload, cmp, N, orig, i, prev, hasDec, hasInc,
                   k, trace, nswap>>
    /\ UNCHANGED pending

\* Intro::reverse has done its NumElements / 2 exchanges; sorted returns true.
ReverseReturn ==
    /\ pc = "reverse"
    /\ ~(N > 1 /\ nrev < N \div 2)
    /\ pc' = "done"
    /\ UNCHANGED <<entry, lt, overload, cmp, N, a, orig, i, prev, hasDec, hasInc,
                   k, trace, nswap, nrev, accessed>>
    /\ UNCHANGED pending

\* The next compare-exchange of the network.
NetStep ==
    /\ pc = "net"
    /\ k < Len(Network(N, overload))
    /\ LET e == Network(N, overload)[k + 1]
       IN  /\ a' = swap_if(a, e[1], e[2], cmp)
           /\ trace' = Append(trace, e)
           /\ nswap' = IF swap_if(a, e[1], e[2], cmp) # a THEN nswap + 1 ELSE nswap
           /\ accessed' = accessed \cup {e[1], e[2]}
    /\ k' = k + 1
    /\ UNCHANGED <<pc, entry, lt, overload, cmp, N, orig, i, prev, hasDec, hasInc, nrev>>
    /\ UNCHANGED pending

\* The network has executed its last edge; the call returns.
NetReturn ==
    /\ pc = "net"
    /\ k = Len(Network(N, overload))
    /\ pc' = "done"
    /\ UNCHANGED <<entry, lt, overload, cmp, N, a, orig, i, prev, hasDec, hasInc,
                   k, trace, nswap, nrev, accessed>>
    /\ UNCHANGED pending

\* A call of sort.
Sort ==
    /\ pc = "idle"
    /\ \E n \in 0..MaxN, f \in Forms :
         \E c \in (IF HasCompare(f) THEN Comparators ELSE {"less"}) :
           \E m \in StorageLengths(n, f) :
             \E s \in Inputs[m] : CallSort(n, f, c, s)

\* A call of adaptive_sort.
AdaptiveSort ==
    /\ pc = "idle"
    /\ \E n \in 0..MaxN, f \in Forms :
         \E c \in (IF HasCompare(f) THEN Comparators ELSE {"less"}) :
           \E m \in StorageLengths(n, f) :
             \E s \in Inputs[m] : CallAdaptive(n, f, c, s)

Next ==
    \/ Sort
    \/ AdaptiveSort
    \/ ScanStep
    \/ Decide
    \/ ReverseStep
    \/ ReverseReturn
    \/ NetStep
    \/ NetReturn

Spec == Init /\ [][Next]_vars

\* ----------------------------------- the Bose-Nelson recursion on its own
\* The primary template's network for n, about to run on a 0/1 input.
InitGen ==
    /\ pc = "gen"
    /\ entry = "sort"
    /\ lt = "less"
    /\ overload = "container"
    /\ cmp = "less"
    /\ N \in 0..MaxGenN
    /\ a \in ZeroOne(N)
    /\ orig = a
    /\ i = 0
    /\ prev = 0
    /\ hasDec = FALSE
    /\ hasInc = FALSE
    /\ k = 0
    /\ trace = << >>
    /\ nswap = 0
    /\ nrev = 0
    /\ accessed = {}
    /\ pending = << >>

\* The next edge of PS<Container, LT, 1, N, (N <= 1)>.
GenStep ==
    /\ pc = "gen"
    /\ k < Len(GenericNet[N])
    /\ LET e == GenericNet[N][k + 1]
       IN  /\ a' = swap_if(a, e[1], e[2], cmp)
           /\ trace' = Append(trace, e)
           /\ nswap' = IF swap_if(a, e[1], e[2], cmp) # a THEN nswap + 1 ELSE nswap
           /\ accessed' = accessed \cup {e[1], e[2]}
    /\ k' = k + 1
    /\ UNCHANGED <<pc, entry, lt, overload, cmp, N, orig, i, prev, hasDec, hasInc, nrev>>
    /\ UNCHANGED pending

NextGen == GenStep

SpecGen == InitGen /\ [][NextGen]_vars

\* --------------------------------------------- the scan of large inputs --
\* The sizes on both sides of the early-exit threshold.
LargeSizes == FullScanMax..(FullScanMax + MaxOver)

\* The inputs of length n the large sizes are called with: the 0/1 sequences
\* with at most two changes of value (ascending, descending, constant, and a
\* first increase and decrease at any two positions) and the benchmark arrays.
ScanInputs(n) ==
    { [x \in 1..n |-> IF x <= p THEN v ELSE IF x <= q THEN 1 - v ELSE v] :
        v \in {0, 1}, p \in 0..n, q \in 0..n }
      \cup { generate_sorted_array(n), generate_reversed_array(n),
             generate_pipe_organ_array(n) }

\* A call of adaptive_sort with one of the large sizes.
AdaptiveSortLarge ==
    /\ pc = "idle"
    /\ \E n \in LargeSizes, f \in {"container", "rangeCmp"} :
         \E c \in (IF HasCompare(f) THEN {"greater"} ELSE {"less"}) :
           \E s \in ScanInputs(n) : CallAdaptive(n, f, c, s)

NextScan ==
    \/ AdaptiveSortLarge
    \/ ScanStep
    \/ Decide
    \/ ReverseStep
    \/ ReverseReturn
    \/ NetStep
    \/ NetReturn

SpecScan == Init /\ [][NextScan]_vars

\* ------------------------------------------------------------ predicates -
\* s is non-decreasing under c: !c(s[p + 1], s[p]) for all adjacent positions.
Sorted(s, c) == \A p \in 1..(Len(s) - 1) : ~Compare(c, s[p + 1], s[p])

\* The call has returned and its length check had passed.
Returned == pc = "done" /\ Len(orig) = N

\* s is strictly descending under c: c(s[p + 1], s[p]) for all adjacent positions.
StrictlyDescending(s, c) == \A p \in 1..(Len(s) - 1) : Compare(c, s[p + 1], s[p])

\* The documented comparator counts of the specialized networks.
DocumentedCount(n) ==
    CASE n = 2 -> 1 [] n = 3 -> 3 [] n = 4 -> 5 [] n = 5 -> 9
      [] n = 6 -> 12 [] n = 7 -> 16 [] n = 8 -> 19

\* --------------------------------------------------------------- claims --

\* C1: for each N in 2..8 the specialized network leaves every input of
\* length N non-decreasing under the comparator in use (every 0/1 input ends
\* as 0..0,1..1), and [5,2,8,1,9,3] ends as [1,2,3,5,8,9].
C1_SpecializedNetworkSorts ==
    (Returned /\ IsSpecialized(N)) =>
        /\ Sorted(a, cmp)
        /\ (orig = <<5, 2, 8, 1, 9, 3>> /\ cmp = "less") => a = <<1, 2, 3, 5, 8, 9>>

C1_Witness ==
    /\ Returned /\ entry = "sort" /\ N = 6 /\ overload = "container"
    /\ orig = <<5, 2, 8, 1, 9, 3>> /\ a = <<1, 2, 3, 5, 8, 9>>

\* C2: for every N the edge list of the Bose-Nelson recursion PS<.,.,1,N>,
\* executed in order, leaves every 0/1 input of length N non-decreasing.
C2_BoseNelsonSorts ==
    (pc = "gen" /\ k = Len(GenericNet[N])) => Sorted(a, "less")

C2_Witness ==
    /\ pc = "gen" /\ N = 9 /\ k = Len(GenericNet[N]) /\ k > 0
    /\ orig = <<1, 1, 0, 1, 0, 1, 0, 0, 1>> /\ a = <<0, 0, 0, 0, 1, 1, 1, 1, 1>>

\* C3: for each N in 2..8 one call of sort executes exactly 1, 3, 5, 9, 12,
\* 16, 19 compare-exchanges, whatever the input.
C3_ComparatorCount ==
    (Returned /\ IsSpecialized(N)) => (k = DocumentedCount(N) /\ Len(trace) = DocumentedCount(N))

C3_Witness ==
    /\ Returned /\ entry = "sort" /\ N = 8 /\ Len(trace) = 19
    /\ orig = <<8, 6, 4, 2, 7, 5, 3, 1>>

\* C4: adaptive_sort and sort leave the sequence in the identical final
\* arrangement, element for element, for every N, input and comparator,
\* equivalent but distinguishable elements included.
C4_AdaptiveIdenticalToSort ==
    (Returned /\ entry = "adaptive_sort") => a = StaticSort(N, overload, orig, cmp)

\* C5: for every N >= 8 (8 included) adaptive_sort reverses a strictly
\* descending input with exactly N / 2 exchanges and executes no
\* compare-exchange of the network.
C5_DescendingReversedWithoutNetwork ==
    (Returned /\ entry = "adaptive_sort" /\ N >= 8 /\ StrictlyDescending(orig, cmp)) =>
        (a = Reversed(orig) /\ nrev = N \div 2 /\ trace = << >>)

\* C6: adaptive_sort ends non-decreasing under the comparator for every N and
\* every input, a non-increasing input with ties (reversed) included.
C6_AdaptivePostcondition ==
    (Returned /\ entry = "adaptive_sort") => Sorted(a, cmp)

C6_Witness ==
    /\ Returned /\ entry = "adaptive_sort" /\ N = 9 /\ nrev = 4 /\ trace = << >>
    /\ orig = <<1, 1, 1, 1, 0, 0, 0, 0, 0>> /\ a = <<0, 0, 0, 0, 0, 1, 1, 1, 1>>

\* C7: an iterator-pair or range call whose distance differs from N returns
\* without any comparison or exchange; the storage is unchanged.
C7_LengthMismatchNoOp ==
    (pc = "done" /\ Len(orig) # N) =>
        (a = orig /\ trace = << >> /\ k = 0 /\ nswap = 0 /\ nrev = 0 /\ accessed = {})

C7_Witness ==
    /\ pc = "done" /\ N = 6 /\ overload = "iter" /\ entry = "sort"
    /\ orig = <<1, 0, 1, 0, 1, 0, 0>> /\ a = orig

\* C8: on an input that is already non-decreasing under the comparator (ties
\* included) sort and adaptive_sort exchange nothing and leave every element
\* where it was; sorting the result of a sort again changes nothing.
C8_Idempotence ==
    /\ (Returned /\ Sorted(orig, cmp)) => (a = orig /\ nswap = 0 /\ nrev = 0)
    /\ Returned => StaticSort(N, overload, a, cmp) = a

C8_Witness ==
    /\ Returned /\ entry = "sort" /\ N = 9 /\ cmp = "bykey" /\ Len(trace) = 27
    /\ orig = <<0, 0, 0, 1, 1, 2, 2, 2, 2>> /\ a = orig

\* C9: sort with a caller-supplied comparator orders by that comparator, and
\* [1,2,3,4,5] sorted with (a > b) ends as [5,4,3,2,1].
C9_CustomComparator ==
    (Returned /\ entry = "sort" /\ overload \in {"containerCmp", "iterCmp"}) =>
        /\ \A p \in 1..(N - 1) : ~Compare(lt, a[p + 1], a[p])
        /\ (orig = <<1, 2, 3, 4, 5>> /\ lt = "greater") => a = <<5, 4, 3, 2, 1>>

C9_Witness ==
    /\ Returned /\ entry = "sort" /\ overload = "containerCmp" /\ lt = "greater"
    /\ orig = <<1, 2, 3, 4, 5>> /\ a = <<5, 4, 3, 2, 1>>

\* C10: for N in 2..8 every call shape of sort executes the same ordered list
\* of compare-exchange index pairs and so produces the same result.
C10_SameNetworkInEveryShape ==
    (Returned /\ IsSpecialized(N)) =>
        \A o \in Overloads :
            /\ trace = SpecializedNet(N, o)
            /\ a = RunNetwork(SpecializedNet(N, o), orig, cmp)

C10_Witness ==
    /\ Returned /\ entry = "sort" /\ N = 7 /\ overload = "iterCmp" /\ cmp = "greater"
    /\ orig = <<7, 5, 3, 1, 6, 4, 2>> /\ trace = StaticSort7_container

\* x and y are equivalent under c: neither precedes the other.
Equivalent(c, x, y) == ~Compare(c, x, y) /\ ~Compare(c, y, x)

\* C11: a compare-exchange swap_if(a[p], a[q], cmp) exchanges the two values
\* if cmp(a[q], a[p]) holds and leaves both unchanged otherwise; afterwards
\* !cmp(a[q], a[p]) holds, the two positions hold the same two values as
\* before, no other position changes, and two equivalent elements are never
\* exchanged.
C11_SwapIf ==
    [][ (pc = "net" /\ k' = k + 1) =>
          LET e == Network(N, overload)[k + 1]
              p == e[1] + 1
              q == e[2] + 1
          IN  /\ IF Compare(cmp, a[q], a[p])
                   THEN a'[p] = a[q] /\ a'[q] = a[p]
                   ELSE a'[p] = a[p] /\ a'[q] = a[q]
              /\ \A r \in DOMAIN a : r \notin {p, q} => a'[r] = a[r]
              /\ DOMAIN a' = DOMAIN a
              /\ ~Compare(cmp, a'[q], a'[p])
              /\ Equivalent(cmp, a[p], a[q]) => a' = a ]_vars

C11_Witness ==
    /\ pc = "net" /\ N = 9 /\ cmp = "bykey" /\ k = 27 /\ nswap > 0
    /\ orig = <<2, 2, 1, 1, 0, 0, 0, 0, 0>> /\ Sorted(a, cmp)

RECURSIVE merge(_, _, _, _)
\* merge(I, J, X, Y) as the specification words it (section 4.2), with its
\* edges as 1-based index pairs.
merge(I, J, X, Y) ==
    IF X = 1 /\ Y = 1 THEN << <<I, J>> >>
    ELSE IF X = 1 /\ Y = 2 THEN << <<I, J + 1>>, <<I, J>> >>
    ELSE IF X = 2 /\ Y = 1 THEN << <<I, J>>, <<I + 1, J>> >>
    ELSE LET L == X \div 2
             Mp == IF X % 2 = 1 THEN Y \div 2 ELSE (Y + 1) \div 2
         IN  merge(I, J, L, Mp)
               \o merge(I + L, J + Mp, X - L, Y - Mp)
               \o merge(I + L, J, X - L, Mp)

RECURSIVE split_sort(_, _)
\* split-sort(I, M) as the specification words it.
split_sort(I, M) ==
    IF M <= 1 THEN << >>
    ELSE LET L == M \div 2
         IN  split_sort(I, L) \o split_sort(I + L, M - L) \o merge(I, I + L, L, M - L)

\* The specified edge sequence for each n, each 1-based edge (I, J) as the
\* 0-based positions (I - 1, J - 1).
SpecifiedNet ==
    [n \in DOMAIN GenericNet |->
        [x \in 1..Len(split_sort(1, n)) |->
            <<split_sort(1, n)[x][1] - 1, split_sort(1, n)[x][2] - 1>>]]

\* C12: the edges the primary template StaticSort<N> executes, in order, are
\* the sequence split-sort(1, N) of the specification with each 1-based edge
\* (I, J) applied to the positions (I - 1, J - 1).
C12_GeneratorMatchesSpecification ==
    pc = "gen" =>
        /\ k <= Len(SpecifiedNet[N])
        /\ trace = SubSeq(SpecifiedNet[N], 1, k)
        /\ (k = Len(SpecifiedNet[N])) = (k = Len(GenericNet[N]))

C12_Witness ==
    /\ pc = "gen" /\ N = 11 /\ k = 38 /\ k = Len(GenericNet[N])
    /\ trace = SpecifiedNet[N] /\ orig = <<1, 0, 1, 0, 1, 0, 1, 0, 1, 0, 1>>

\* The edge e is an index pair (i, j) with 0 <= i < j <= n - 1.
EdgeInRange(e, n) == 0 <= e[1] /\ e[1] < e[2] /\ e[2] <= n - 1

\* C13: every compare-exchange edge (i, j) executed for length N, from a
\* specialized table or from the Bose-Nelson recursion, has 0 <= i < j <= N - 1.
C13_EdgesInRange ==
    /\ \A x \in 1..Len(trace) : EdgeInRange(trace[x], N)
    /\ pc = "idle" =>
         /\ \A n \in DOMAIN GenericNet :
              \A x \in 1..Len(GenericNet[n]) : EdgeInRange(GenericNet[n][x], n)
         /\ \A n \in MinSpecialized..MaxSpecialized : \A o \in Overloads :
              \A x \in 1..Len(SpecializedNet(n, o)) : EdgeInRange(SpecializedNet(n, o)[x], n)

C13_Witness ==
    /\ Returned /\ entry = "sort" /\ N = 9 /\ Len(trace) = 27 /\ trace[27] = <<3, 4>>
    /\ overload = "iter" /\ orig = <<1, 0, 1, 0, 1, 0, 1, 0, 1>>

\* Both an increasing and a decreasing adjacent pair of s lie among the
\* positions 1..p (the pair at position q is s[q - 1], s[q], 0-based).
BothFlagsBy(s, c, p) ==
    /\ \E q \in 1..p : Compare(c, s[q + 1], s[q])
    /\ \E q \in 1..p : Compare(c, s[q], s[q + 1])

\* The pre-scan of this call has been run and is over.
ScanOver ==
    /\ entry = "adaptive_sort" /\ ~Delegates(N) /\ N >= 8 /\ Len(orig) = N
    /\ pc \in {"net", "reverse", "done"}

\* C14: for N <= 22 the pre-scan visits all N - 1 adjacent pairs whatever
\* the input; for N > 22 it stops right after the first position at which
\* both flags are true, visits no later pair and reports "not monotonic"
\* (the network runs); i - 1 is the number of pairs visited.
C14_ScanExtent ==
    /\ (pc = "scan" /\ N > 22) => ~(hasInc /\ hasDec)
    /\ ScanOver =>
         IF N <= 22 THEN i = N /\ (0..(N - 1)) \subseteq accessed
         ELSE IF \E p \in 1..(N - 1) : BothFlagsBy(orig, cmp, p)
           THEN /\ BothFlagsBy(orig, cmp, i - 1)
                /\ ~BothFlagsBy(orig, cmp, i - 2)
                /\ pc \in {"net", "done"} /\ nrev = 0
                /\ pc = "done" => trace = Network(N, overload)
           ELSE i = N

C14_Witness ==
    /\ pc = "net" /\ k = 0 /\ N = 23 /\ i = 3 /\ hasInc /\ hasDec
    /\ accessed = {0, 1, 2} /\ a[1] = 0 /\ a[2] = 1 /\ a[3] = 0

\* C15: when the pre-scan has found both an increasing and a decreasing pair,
\* the sequence is unchanged by the scan at the moment the network starts,
\* and the network then run is the one sort selects for that N: the same
\* edges in the same order, with the same comparator, run to its end.
C15_NetworkOnUntouchedInput ==
    /\ pc = "scan" => a = orig
    /\ (ScanOver /\ hasInc /\ hasDec) =>
         /\ pc \in {"net", "done"} /\ nrev = 0
         /\ k = 0 => a = orig
         /\ k <= Len(Network(N, overload))
         /\ trace = SubSeq(Network(N, overload), 1, k)
         /\ pc = "done" => k = Len(Network(N, overload))
         /\ cmp = (IF overload \in {"containerCmp", "iterCmp"} THEN lt ELSE "less")
         /\ a = RunNetwork(trace, orig, cmp)

C15_Witness ==
    /\ pc = "net" /\ k = 0 /\ entry = "adaptive_sort" /\ N = 9 /\ i = 9
    /\ hasInc /\ hasDec /\ orig = <<0, 1, 0, 1, 1, 0, 1, 0, 0>> /\ a = orig

\* C16: for every N >= 8, an input in which no adjacent pair satisfies
\* cmp(curr, prev) (ascending, the all-equal sequence included) is classified
\* as ascending by adaptive_sort: every element stays where it is and neither
\* the reversal nor the sorting network is run.
C16_AscendingSkipsNetwork ==
    (Returned /\ entry = "adaptive_sort" /\ N >= 8
       /\ \A p \in 1..(N - 1) : ~Compare(cmp, orig[p + 1], orig[p])) =>
        (a = orig /\ nrev = 0 /\ k = 0 /\ trace = << >> /\ ~hasDec)

\* The number of positions of s holding the element v.
Occurrences(s, v) == Cardinality({ p \in DOMAIN s : s[p] = v })

\* C17: permutation invariant.  After every single step of sort or
\* adaptive_sort (every compare-exchange of a network, every exchange of the
\* reversal, every step of the scan) the sequence has the length of the input
\* and holds every element exactly as many times as the input does: nothing is
\* duplicated or lost, so the final sequence is a permutation of the input.
C17_PermutationInvariant ==
    /\ Len(a) = Len(orig)
    /\ \A v \in 0..(MaxN + MaxElem) : Occurrences(a, v) = Occurrences(orig, v)
    /\ \A p \in DOMAIN a : a[p] \in 0..(MaxN + MaxElem)

\* A call of adaptive_sort in the middle of its reversal and a network in the
\* middle of its edges have both moved elements of a nine-element input.
C17_Witness ==
    /\ N = 9 /\ Len(orig) = N /\ a # orig
    /\ \/ pc = "reverse" /\ nrev = 2
       \/ pc = "net" /\ nswap = 3 /\ k < Len(Network(N, overload))

\* ------------------------------------- instantiation of the templates ----
\* An instantiation PS<A, C, I, M, Stop> whose constructor is still to run.
PSBlock(I, M, Stop) == [tmpl |-> "PS", I |-> I, M |-> M, Stop |-> Stop]

\* An instantiation PB<A, C, I, J, X, Y> whose constructor is still to run.
PBBlock(I, J, X, Y) == [tmpl |-> "PB", I |-> I, J |-> J, X |-> X, Y |-> Y]

\* The value of the template argument (M <= 1)
Stop(M) == IF M <= 1 THEN 1 ELSE 0

\* The partial specializations of PB with the one for X = 1, Y = 2 left out.
PBSpecialized_without_12(X, Y) ==
    \/ X = 1 /\ Y = 1
    \/ X = 2 /\ Y = 1

\* The partial specializations of PB: <1, 1>, <1, 2> and <2, 1>.
PBSpecialized(X, Y) ==
    \/ X = 1 /\ Y = 1
    \/ X = 1 /\ Y = 2
    \/ X = 2 /\ Y = 1

\* The members p0, p1, p2 the constructor of the primary template PB
\* constructs, in order.
PBMembers(I, J, X, Y) ==
    LET L == X \div 2
        M == (IF X % 2 = 1 THEN Y ELSE Y + 1) \div 2
        IAddL == I + L
        XSubL == X - L
    IN  << PBBlock(I, J, L, M),
           PBBlock(IAddL, J + M, XSubL, Y - M),
           PBBlock(IAddL, J, XSubL, M) >>

\* The members ps0, ps1, pb the constructor of the primary template PS
\* constructs, in order.
PSMembers(I, M) ==
    LET L == M \div 2
        IAddL == I + L
        MSubL == M - L
    IN  << PSBlock(I, L, Stop(L)),
           PSBlock(IAddL, MSubL, Stop(MSubL)),
           PBBlock(I, IAddL, L, MSubL) >>

\* operator() of StaticSort<N> is about to construct
\* PS<Container, LT, 1, NumElements, (NumElements <= 1)>.
InitInst ==
    /\ pc = "inst"
    /\ entry = "sort"
    /\ lt = "less"
    /\ overload = "container"
    /\ cmp = "less"
    /\ N \in 0..MaxGenN
    /\ a = << >>
    /\ orig = << >>
    /\ i = 0
    /\ prev = 0
    /\ hasDec = FALSE
    /\ hasInc = FALSE
    /\ k = 0
    /\ trace = << >>
    /\ nswap = 0
    /\ nrev = 0
    /\ accessed = {}
    /\ pending = << PSBlock(1, N, Stop(N)) >>

\* The constructor of the innermost PS runs: the specialization for Stop = 1
\* does nothing, the primary template constructs its three members.
ConstructPS ==
    /\ pc = "inst"
    /\ pending # << >>
    /\ Head(pending).tmpl = "PS"
    /\ LET b == Head(pending)
       IN  IF b.Stop = 1
             THEN pending' = Tail(pending)
             ELSE /\ Len(pending) + 2 <= MaxPending
                  /\ pending' = PSMembers(b.I, b.M) \o Tail(pending)
    /\ UNCHANGED <<pc, entry, lt, overload, cmp, N, a, orig, i, prev, hasDec, hasInc,
                   k, trace, nswap, nrev, accessed>>

\* The constructor of the innermost PB runs: a specialization constructs its
\* Swap members, the primary template constructs its three PB members.
ConstructPB ==
    /\ pc = "inst"
    /\ pending # << >>
    /\ Head(pending).tmpl = "PB"
    /\ LET b == Head(pending)
       IN  IF PBSpecialized(b.X, b.Y)
             THEN /\ pending' = Tail(pending)
                  /\ trace' = trace \o PB(b.I, b.J, b.X, b.Y)
             ELSE /\ Len(pending) + 2 <= MaxPending
                  /\ pending' = PBMembers(b.I, b.J, b.X, b.Y) \o Tail(pending)
                  /\ UNCHANGED trace
    /\ UNCHANGED <<pc, entry, lt, overload, cmp, N, a, orig, i, prev, hasDec, hasInc,
                   k, nswap, nrev, accessed>>

NextInst ==
    \/ ConstructPS
    \/ ConstructPB

\* A constructor that has been entered runs on.
SpecInst == InitInst /\ [][NextInst]_vars /\ WF_vars(NextInst)

\* Every merge block begun and not completed has two non-empty halves.
NoEmptyMerge ==
    \A p \in DOMAIN pending :
        pending[p].tmpl = "PB" => pending[p].X >= 1 /\ pending[p].Y >= 1

\* C18: for every N >= 0 the construction started at PS<1, N> terminates:
\* every merge block PB<I, J, X, Y> it reaches has X >= 1 and Y >= 1, every
\* block is completed after finitely many steps (the merge blocks ending in
\* the base cases <1, 1>, <1, 2>, <2, 1>, the only ones to produce edges), the
\* edges produced are those of the network, and for N <= 1 none is produced.
C18_ConstructionTerminates ==
    /\ [](pc = "inst" => NoEmptyMerge /\ (N <= 1 => trace = << >>))
    /\ (pc = "inst") ~> (pending = << >> /\ trace = GenericNet[N])

\* The construction for nine elements has completed and produced its edges.
C18_Witness ==
    /\ pc = "inst" /\ N = 9 /\ pending = << >>
    /\ Len(trace) = 27 /\ trace = GenericNet[9]

\* C19: in every call form of sort and adaptive_sort and for every N >= 0
\* whose length check passes, every element read or written is at an index in
\* 0..N-1; with N = 0 no element is accessed at all, and with N = 1 only
\* index 0 is.
C19_AccessesWithinBounds ==
    (pc \in {"scan", "reverse", "net", "done"} /\ Len(orig) = N) =>
        /\ accessed \subseteq 0..(N - 1)
        /\ N = 0 => accessed = {}
        /\ N = 1 => accessed \subseteq {0}

====
